---- MODULE Spec2Model ----
(***************************************************************************)
(* Model of cognite.model_hosting.notebook: the requirement extractor      *)
(* (_setup_file.py), the code validator and glue synthesizer               *)
(* (_model_file.py) and the packaging and deployment (notebook.py).  Text  *)
(* is a string (a sequence of characters), a raised Python exception is a  *)
(* result record with ok = FALSE.                                          *)
(*                                                                         *)
(* source_code and notebook are the inputs; op is the function called, arg *)
(* its argument and result what it returned or raised.  build is the files *)
(* of the build directory, calls the sleeps and the calls to the model     *)
(* hosting client made so far, each with its response; pc is the next step *)
(* of a running deployment, attempt the loop index of the upload polling   *)
(* and source_package the id the upload returned.                          *)
(***************************************************************************)
EXTENDS Integers, Sequences, FiniteSets, TLC

VARIABLES source_code, notebook, op, arg, result,
          build, calls, pc, attempt, source_package

\* The state of the packaging and deployment.
deployment == <<build, calls, pc, attempt, source_package>>

vars == <<source_code, notebook, op, arg, result, deployment>>

-----------------------------------------------------------------------------
(* Text helpers: Python str operations on sequences of characters.         *)

\* The character of text s at position i.
At(s, i) == SubSeq(s, i, i)

\* The least element of a non-empty set of integers.
Min(S) == CHOOSE x \in S : \A y \in S : x <= y

\* The greatest element of a non-empty set of integers.
Max(S) == CHOOSE x \in S : \A y \in S : x >= y

\* The positions of character c in text s.
Positions(s, c) == {i \in 1..Len(s) : At(s, i) = c}

\* The elements of a finite set of integers in increasing order.
RECURSIVE Ascending(_)
Ascending(S) == IF S = {} THEN <<>> ELSE <<Min(S)>> \o Ascending(S \ {Min(S)})

\* str.startswith(prefix)
StartsWith(s, prefix) == Len(s) >= Len(prefix) /\ SubSeq(s, 1, Len(prefix)) = prefix

\* str.split(sep) for a one-character separator: the pieces between separators.
Split(s, sep) ==
  LET cuts == <<0>> \o Ascending(Positions(s, sep)) \o <<Len(s) + 1>>
  IN  [k \in 1..(Len(cuts) - 1) |-> SubSeq(s, cuts[k] + 1, cuts[k + 1] - 1)]

\* The characters str.strip() and str.isspace() treat as whitespace.
Whitespace == {" ", "\n", "\t", "\r"}

\* str.isspace(): at least one character and all of them whitespace.
IsSpace(s) == Len(s) > 0 /\ \A i \in 1..Len(s) : At(s, i) \in Whitespace

\* str.strip(): leading and trailing whitespace removed.
Strip(s) ==
  LET keep == {i \in 1..Len(s) : At(s, i) \notin Whitespace}
  IN  IF keep = {} THEN "" ELSE SubSeq(s, Min(keep), Max(keep))

\* sep.join(parts)
RECURSIVE Join(_, _)
Join(sep, parts) ==
  IF parts = <<>> THEN ""
  ELSE IF Len(parts) = 1 THEN parts[1]
  ELSE parts[1] \o sep \o Join(sep, Tail(parts))

-----------------------------------------------------------------------------
(* Exceptions: a call either returns a value or raises.  A function that  *)
(* calls another is written as the call handed to the rest of its body,   *)
(* and the rest passes on the exception of a call that raised.            *)

\* A normal return of value v.
Return(v) == [ok |-> TRUE, value |-> v, error |-> "", msg |-> ""]

\* A raised exception of class e with message m.
Raise(e, m) == [ok |-> FALSE, value |-> <<>>, error |-> e, msg |-> m]

\* Python None, and a present value, for a result that may be absent.
None == <<>>

Some(v) == <<v>>

-----------------------------------------------------------------------------
(* _model_file.py: signature lookup and validation.                        *)

\* Mutant of MatchDefinitionLine: re.match in place of re.fullmatch, so text
\* after the colon no longer disqualifies the line.
MatchDefinitionLine_match(function_name, line) ==
  LET head   == "def " \o function_name \o "("
      closes == {i \in (Len(head) + 1)..Len(line) : At(line, i) = ")"}
  IN  IF StartsWith(line, head) /\ closes # {}
      THEN LET close == Min(closes)
           IN  IF Len(line) > close /\ At(line, close + 1) = ":"
               THEN Some(SubSeq(line, Len(head) + 1, close - 1))
               ELSE None
      ELSE None

\* re.fullmatch(r"def NAME\(([^)]*)\): *", line): the group, or None.
MatchDefinitionLine(function_name, line) ==
  LET head   == "def " \o function_name \o "("
      closes == {i \in (Len(head) + 1)..Len(line) : At(line, i) = ")"}
  IN  IF StartsWith(line, head) /\ closes # {}
      THEN LET close == Min(closes)
           IN  IF /\ Len(line) > close
                  /\ At(line, close + 1) = ":"
                  /\ \A i \in (close + 2)..Len(line) : At(line, i) = " "
               THEN Some(SubSeq(line, Len(head) + 1, close - 1))
               ELSE None
      ELSE None

\* Lines 35-40 of _get_function_signature: none, one or several matches.
SingleSignature(parameter_signatures, function_name) ==
  IF parameter_signatures = <<>> THEN Return(None)
  ELSE IF Len(parameter_signatures) > 1
  THEN Raise("InvalidCodeFormat", "Multiple definitions of " \o function_name \o "()")
  ELSE Return(Some(parameter_signatures[1]))

_get_function_signature(source, function_name) ==
  LET matching == SelectSeq(Split(source, "\n"),
                            LAMBDA line : MatchDefinitionLine(function_name, line) # None)
  IN  SingleSignature([k \in 1..Len(matching) |->
                         MatchDefinitionLine(function_name, matching[k])[1]],
                      function_name)

\* re.fullmatch(PREFIX + r"(,.*)?", parameters): "." matches all but a newline.
MatchPrefixThenMore(prefix, parameters) ==
  \/ parameters = prefix
  \/ /\ StartsWith(parameters, prefix \o ",")
     /\ \A i \in (Len(prefix) + 2)..Len(parameters) : At(parameters, i) # "\n"

\* The parameter patterns of _model_file.py, each as its re.fullmatch.
MatchPattern(parameter_pattern, parameters) ==
  CASE parameter_pattern = "open_artifact(,.*)?" ->
         MatchPrefixThenMore("open_artifact", parameters)
    [] parameter_pattern = "open_artifact" ->
         parameters = "open_artifact"
    [] parameter_pattern = "model, instance(,.*)?" ->
         MatchPrefixThenMore("model, instance", parameters)
    [] parameter_pattern = "instance(,.*)?" ->
         MatchPrefixThenMore("instance", parameters)

\* Lines 45-50 of _source_code_has_function, given the signature lookup.
SignatureMatches(parameters, parameter_pattern, parameter_error_msg) ==
  IF ~parameters.ok THEN parameters
  ELSE IF parameters.value = None THEN Return(FALSE)
  ELSE IF MatchPattern(parameter_pattern, parameters.value[1]) THEN Return(TRUE)
  ELSE Raise("InvalidCodeFormat", parameter_error_msg)

_source_code_has_function(source, name, parameter_pattern, parameter_error_msg) ==
  SignatureMatches(_get_function_signature(source, name), parameter_pattern, parameter_error_msg)

\* Mutant of _source_code_has_train: the pattern without its "(,.*)?" tail.
_source_code_has_train_only_parameter(source) ==
  _source_code_has_function(source, "train_model", "open_artifact",
    "train_model() must have open_artifact as first parameter")

_source_code_has_train(source) ==
  _source_code_has_function(source, "train_model", "open_artifact(,.*)?",
    "train_model() must have open_artifact as first parameter")

\* Mutant of LoadAndPredict: without the check of a load_model() that has
\* no predict().
LoadAndPredict_unchecked(has_load, has_predict) ==
  IF ~has_predict.ok THEN has_predict
  ELSE Return(<<has_load, has_predict.value>>)

\* Lines 87-90 of _source_code_has_load_and_predict, given both lookups.
LoadAndPredict(has_load, has_predict) ==
  IF ~has_predict.ok THEN has_predict
  ELSE IF has_load /\ ~has_predict.value
  THEN Raise("InvalidCodeFormat",
             "A load_model() function was specified, but not a predict() function")
  ELSE Return(<<has_load, has_predict.value>>)

\* Lines 66-90 of _source_code_has_load_and_predict, given the load_model lookup.
PredictForLoad(source, has_load) ==
  IF ~has_load.ok THEN has_load
  ELSE LoadAndPredict(has_load.value,
         IF has_load.value
         THEN _source_code_has_function(source, "predict", "model, instance(,.*)?",
                "predict() must have model as first parameter and instance as second parameter")
         ELSE _source_code_has_function(source, "predict", "instance(,.*)?",
                "predict() must have instance as first parameter"))

_source_code_has_load_and_predict(source) ==
  PredictForLoad(source,
    _source_code_has_function(source, "load_model", "open_artifact",
      "load_model() must have open_artifact as the only parameter"))

-----------------------------------------------------------------------------
(* _model_file.py: parameter lists and the glue code.                      *)

\* [p.strip() for p in parameters]
StripEach(parameters) == [k \in 1..Len(parameters) |-> Strip(parameters[k])]

\* Mutant of DistinctParameters: no duplicate check.
DistinctParameters_unchecked(parameters, function_name) == Return(parameters)

\* Lines 98-100 of _get_function_parameters: the duplicate check.
DistinctParameters(parameters, function_name) ==
  IF Len(parameters) # Cardinality({parameters[k] : k \in 1..Len(parameters)})
  THEN Raise("InvalidCodeFormat", "Duplicate parameters in " \o function_name \o "()")
  ELSE Return(parameters)

\* Lines 95-100 of _get_function_parameters, given the signature lookup.
SplitParameters(parameters, function_name) ==
  IF ~parameters.ok THEN parameters
  ELSE IF parameters.value = None
  THEN Raise("AssertionError", "The function " \o function_name \o " is not defined")
  ELSE DistinctParameters(StripEach(Split(parameters.value[1], ",")), function_name)

_get_function_parameters(source, function_name) ==
  SplitParameters(_get_function_signature(source, function_name), function_name)

\* parameters[parameters.index(name) + 1 :], ValueError when name is not in the list.
AfterFirst(parameters, name) ==
  LET found == {k \in 1..Len(parameters) : parameters[k] = name}
  IN  IF found = {} THEN Raise("ValueError", "'" \o name \o "' is not in list")
      ELSE Return(SubSeq(parameters, Min(found) + 1, Len(parameters)))

\* Mutant of AfterInstance: everything after the first parameter, whether or
\* not the first parameter is instance.
AfterInstance_first(parameters) ==
  IF ~parameters.ok THEN parameters
  ELSE Return(SubSeq(parameters.value, 2, Len(parameters.value)))

\* Line 105 of _get_user_defined_predict_parameters, given the parameters.
AfterInstance(parameters) ==
  IF ~parameters.ok THEN parameters ELSE AfterFirst(parameters.value, "instance")

_get_user_defined_predict_parameters(source) ==
  AfterInstance(_get_function_parameters(source, "predict"))

\* Line 110 of _get_user_defined_train_parameters, given the parameters.
AfterOpenArtifact(parameters) ==
  IF ~parameters.ok THEN parameters
  ELSE Return(SubSeq(parameters.value, 2, Len(parameters.value)))

_get_user_defined_train_parameters(source) ==
  AfterOpenArtifact(_get_function_parameters(source, "train_model"))

_glue_code_start == "# !auto-generated\nclass Model:"

_glue_code_constructor_with_state ==
  "    def __init__(self, model):\n        self._model = model\n"

_glue_code_train ==
  "    @staticmethod\n    def train(open_artifact, {}):\n        train_model(open_artifact, {})\n"

_glue_code_load ==
  "    @staticmethod\n    def load(open_artifact):\n        return Model(load_model(open_artifact))\n"

_glue_code_stateless_load ==
  "    @staticmethod\n    def load(open_artifact):\n        return Model()\n"

_glue_code_predict ==
  "    def predict(self, instance, {}):\n        return predict(self._model, instance, {})\n"

_glue_code_stateless_predict ==
  "    def predict(self, instance, {}):\n        return predict(instance, {})\n"

\* template.format(a, b) for a template holding exactly two "{}" fields.
Format(template, a, b) ==
  LET fields == {i \in 1..(Len(template) - 1) : At(template, i) = "{" /\ At(template, i + 1) = "}"}
      first  == Min(fields)
      second == Max(fields)
  IN  SubSeq(template, 1, first - 1) \o a
        \o SubSeq(template, first + 2, second - 1) \o b
        \o SubSeq(template, second + 2, Len(template))

\* class AvailableOperations(enum.Enum)
AvailableOperations == {"PREDICT", "TRAIN", "PREDICT_TRAIN"}

\* Lines 155-156 of get_model_file_content, given the train parameters.
TrainGlue(parameters) ==
  IF ~parameters.ok THEN parameters
  ELSE Return(<<Format(_glue_code_train, Join(", ", parameters.value),
                       Join(", ", parameters.value))>>)

\* Lines 153-156 of get_model_file_content: the train entry point.
TrainEntry(source) == TrainGlue(_get_user_defined_train_parameters(source))

\* Mutant of PredictGlue: the stateless load whether or not load_model exists.
PredictGlue_stateless_load(parameters, has_load) ==
  IF ~parameters.ok THEN parameters
  ELSE IF has_load
  THEN Return(<<_glue_code_stateless_load,
                Format(_glue_code_predict, Join(", ", parameters.value),
                       Join(", ", parameters.value))>>)
  ELSE Return(<<_glue_code_stateless_load,
                Format(_glue_code_stateless_predict, Join(", ", parameters.value),
                       Join(", ", parameters.value))>>)

\* Lines 159-169 of get_model_file_content, given the predict parameters.
PredictGlue(parameters, has_load) ==
  IF ~parameters.ok THEN parameters
  ELSE IF has_load
  THEN Return(<<_glue_code_load,
                Format(_glue_code_predict, Join(", ", parameters.value),
                       Join(", ", parameters.value))>>)
  ELSE Return(<<_glue_code_stateless_load,
                Format(_glue_code_stateless_predict, Join(", ", parameters.value),
                       Join(", ", parameters.value))>>)

\* Lines 158-169 of get_model_file_content: the load and predict entry points.
PredictEntries(source, has_load) ==
  PredictGlue(_get_user_defined_predict_parameters(source), has_load)

\* Mutant of JoinContent: the state-holding constructor whether or not
\* load_model exists.
JoinContent_with_constructor(source, has_load, train, predict) ==
  IF ~train.ok THEN train
  ELSE IF ~predict.ok THEN predict
  ELSE Return(Join("\n", <<source \o "\n", _glue_code_start, _glue_code_constructor_with_state>>
                           \o train.value
                           \o predict.value))

\* Lines 148-171 of get_model_file_content, given the entry points.
JoinContent(source, has_load, train, predict) ==
  IF ~train.ok THEN train
  ELSE IF ~predict.ok THEN predict
  ELSE Return(Join("\n", <<source \o "\n", _glue_code_start>>
                           \o (IF has_load THEN <<_glue_code_constructor_with_state>> ELSE <<>>)
                           \o train.value
                           \o predict.value))

\* Lines 148-171 of get_model_file_content: the content once validation passed.
SynthesizeContent(source, has_train, has_load, has_predict) ==
  JoinContent(source, has_load,
              IF has_train THEN TrainEntry(source) ELSE Return(<<>>),
              IF has_predict THEN PredictEntries(source, has_load) ELSE Return(<<>>))

\* Mutant of CheckCapabilities: a train_model() that was not asked for passes.
CheckCapabilities_extra_train(source, available_operations, has_train, has_load, has_predict) ==
  LET should_have_train   == available_operations \in {"TRAIN", "PREDICT_TRAIN"}
      should_have_predict == available_operations \in {"PREDICT", "PREDICT_TRAIN"}
  IN  IF should_have_train /\ ~has_train
      THEN Raise("InvalidCodeFormat", "Missing required train_model() function")
      ELSE IF should_have_predict /\ ~has_predict
      THEN Raise("InvalidCodeFormat", "Missing required predict() functions")
      ELSE IF ~should_have_predict /\ has_predict
      THEN Raise("InvalidCodeFormat",
                 "A predict() function should not be defined when no prediction is performed in Model Hosting")
      ELSE SynthesizeContent(source, has_train, has_load, has_predict)

\* Lines 132-146 of get_model_file_content: discovered against requested.
CheckCapabilities(source, available_operations, has_train, has_load, has_predict) ==
  LET should_have_train   == available_operations \in {"TRAIN", "PREDICT_TRAIN"}
      should_have_predict == available_operations \in {"PREDICT", "PREDICT_TRAIN"}
  IN  IF should_have_train /\ ~has_train
      THEN Raise("InvalidCodeFormat", "Missing required train_model() function")
      ELSE IF should_have_predict /\ ~has_predict
      THEN Raise("InvalidCodeFormat", "Missing required predict() functions")
      ELSE IF ~should_have_train /\ has_train
      THEN Raise("InvalidCodeFormat",
                 "A train_model() function should not be defined when no training is performed in Model Hosting")
      ELSE IF ~should_have_predict /\ has_predict
      THEN Raise("InvalidCodeFormat",
                 "A predict() function should not be defined when no prediction is performed in Model Hosting")
      ELSE SynthesizeContent(source, has_train, has_load, has_predict)

\* Mutant of Validated: a failure of the load_model and predict lookup is
\* reported before a failure of the train_model lookup.
Validated_load_first(source, available_operations, has_train, load_and_predict) ==
  IF ~load_and_predict.ok THEN load_and_predict
  ELSE IF ~has_train.ok THEN has_train
  ELSE CheckCapabilities(source, available_operations, has_train.value,
                         load_and_predict.value[1], load_and_predict.value[2])

\* Lines 129-171 of get_model_file_content, given the discovered functions.
Validated(source, available_operations, has_train, load_and_predict) ==
  IF ~has_train.ok THEN has_train
  ELSE IF ~load_and_predict.ok THEN load_and_predict
  ELSE CheckCapabilities(source, available_operations, has_train.value,
                         load_and_predict.value[1], load_and_predict.value[2])

get_model_file_content(source, available_operations) ==
  Validated(source, available_operations,
            _source_code_has_train(source), _source_code_has_load_and_predict(source))

-----------------------------------------------------------------------------
(* _setup_file.py: the requirement cell and its specifiers.  A cell is a   *)
(* record of cell_type, metadata (a mapping that may hold "tags") and      *)
(* source (a list of lines).                                               *)

\* re.fullmatch(r"# *!WORD *\n?", line)
MatchMarkerLine(word, line) ==
  LET body  == IF Len(line) > 0 /\ At(line, Len(line)) = "\n"
               THEN SubSeq(line, 1, Len(line) - 1) ELSE line
      rest == {i \in 2..Len(body) : At(body, i) # " "}
  IN  /\ Len(body) > 0
      /\ At(body, 1) = "#"
      /\ rest # {}
      /\ Len(body) >= Min(rest) + Len(word) - 1
      /\ SubSeq(body, Min(rest), Min(rest) + Len(word) - 1) = word
      /\ \A i \in (Min(rest) + Len(word))..Len(body) : At(body, i) = " "

\* value in list
In(value, list) == \E k \in 1..Len(list) : list[k] = value

_is_raw_requirement_cell(cell) ==
  /\ cell.cell_type = "raw"
  /\ "tags" \in DOMAIN cell.metadata
  /\ In("requirements", cell.metadata.tags)

\* Mutant of _extract_raw_requirement_cell: a leading "#" is stripped as in a
\* comment cell.
_extract_raw_requirement_cell_uncommented(cell) ==
  SelectSeq([k \in 1..Len(cell.source) |->
               IF StartsWith(Strip(cell.source[k]), "#")
               THEN Strip(SubSeq(Strip(cell.source[k]), 2, Len(Strip(cell.source[k]))))
               ELSE Strip(cell.source[k])],
            LAMBDA r : r # "")

_extract_raw_requirement_cell(cell) ==
  SelectSeq(StripEach(cell.source), LAMBDA r : r # "")

_is_comment_requirement_cell(cell) ==
  /\ cell.cell_type = "code"
  /\ cell.source # <<>>
  /\ MatchMarkerLine("!requirements", cell.source[1])

valid_cmp_operators == <<"<", "<=", "!=", "==", ">=", ">", "~=", "===">>

\* The characters of [a-z] and of [0-9].
LowerCase ==
  {"a", "b", "c", "d", "e", "f", "g", "h", "i", "j", "k", "l", "m",
   "n", "o", "p", "q", "r", "s", "t", "u", "v", "w", "x", "y", "z"}

Digit == {"0", "1", "2", "3", "4", "5", "6", "7", "8", "9"}

\* Mutant of MatchRequirement: re.match in place of re.fullmatch, so a
\* matching prefix is enough.
MatchRequirement_match(requirement) ==
  Len(requirement) > 0 /\ At(requirement, 1) \in LowerCase \cup Digit

\* re.fullmatch("[a-z0-9][a-z0-9_\-.]*((OP1|OP2|...)[^ \n]+)?", requirement)
MatchRequirement(requirement) ==
  \E name \in 1..Len(requirement) :
    /\ At(requirement, 1) \in LowerCase \cup Digit
    /\ \A i \in 2..name : At(requirement, i) \in LowerCase \cup Digit \cup {"_", "-", "."}
    /\ \/ name = Len(requirement)
       \/ \E o \in 1..Len(valid_cmp_operators) :
            /\ StartsWith(SubSeq(requirement, name + 1, Len(requirement)), valid_cmp_operators[o])
            /\ Len(requirement) > name + Len(valid_cmp_operators[o])
            /\ \A i \in (name + Len(valid_cmp_operators[o]) + 1)..Len(requirement) :
                 At(requirement, i) \notin {" ", "\n"}

\* The first requirement that fails the pattern raises; None otherwise.
_sanity_check_requirements(requirements) ==
  LET invalid == {k \in 1..Len(requirements) : ~MatchRequirement(requirements[k])}
  IN  IF invalid = {} THEN Return(None)
      ELSE Raise("InvalidRequirements",
                 "Invalid format for the requirement " \o requirements[Min(invalid)])

\* The loop of _extract_comment_requirement_cell over the lines left, with
\* the requirements collected so far.
RECURSIVE CommentRequirements(_, _)
CommentRequirements(lines, requirements) ==
  IF lines = <<>> THEN Return(requirements)
  ELSE IF ~StartsWith(Head(lines), "#") /\ ~IsSpace(Head(lines))
  THEN Raise("InvalidRequirements", "All lines in the requirement cell must start with #")
  ELSE CommentRequirements(Tail(lines),
         IF Strip(SubSeq(Head(lines), 2, Len(Head(lines)))) # ""
         THEN Append(requirements, Strip(SubSeq(Head(lines), 2, Len(Head(lines)))))
         ELSE requirements)

_extract_comment_requirement_cell(cell) == CommentRequirements(Tail(cell.source), <<>>)

\* Mutant of _requirement_cells: the comment-marked code cells are not collected.
_requirement_cells_raw_only(nb) ==
  SelectSeq(nb.cells, LAMBDA cell : _is_raw_requirement_cell(cell))

_requirement_cells(nb) ==
  SelectSeq(nb.cells, LAMBDA cell :
    _is_raw_requirement_cell(cell) \/ _is_comment_requirement_cell(cell))

\* Lines 70-71 of extract_requirements, given the extracted requirements.
SanityChecked(requirements) ==
  IF ~requirements.ok THEN requirements
  ELSE IF ~_sanity_check_requirements(requirements.value).ok
  THEN _sanity_check_requirements(requirements.value)
  ELSE requirements

\* Lines 57-68 of extract_requirements, given the requirement cells, and the rest.
ExtractFrom(requirement_cells) ==
  IF Len(requirement_cells) = 0
  THEN Raise("InvalidRequirements", "Couldn't find any requirements")
  ELSE IF Len(requirement_cells) > 1
  THEN Raise("InvalidRequirements", "Only one requirement cell is allowed, but found multiple")
  ELSE SanityChecked(
         IF _is_raw_requirement_cell(requirement_cells[1])
         THEN Return(_extract_raw_requirement_cell(requirement_cells[1]))
         ELSE IF _is_comment_requirement_cell(requirement_cells[1])
         THEN _extract_comment_requirement_cell(requirement_cells[1])
         ELSE Raise("AssertionError", ""))

extract_requirements(nb) == ExtractFrom(_requirement_cells(nb))

-----------------------------------------------------------------------------
(* _model_file.py: the model code of a notebook.  A cell may come without  *)
(* a metadata mapping.                                                     *)

\* Mutant of _should_include_code_cell: the tag alone decides.
_should_include_code_cell_by_tag(cell) ==
  /\ "metadata" \in DOMAIN cell
  /\ "tags" \in DOMAIN cell.metadata
  /\ In("model", cell.metadata.tags)

_should_include_code_cell(cell) ==
  LET include_by_tag ==
        /\ "metadata" \in DOMAIN cell
        /\ "tags" \in DOMAIN cell.metadata
        /\ In("model", cell.metadata.tags)
      include_by_comment == MatchMarkerLine("!model", cell.source[1])
  IN  include_by_tag \/ include_by_comment

\* The loop of extract_source_code over the cells left, with the pieces
\* collected so far.
RECURSIVE SourceCodeList(_, _)
SourceCodeList(cells, collected) ==
  IF cells = <<>> THEN collected
  ELSE SourceCodeList(Tail(cells),
         IF /\ Head(cells).cell_type = "code"
            /\ Head(cells).source # <<>>
            /\ _should_include_code_cell(Head(cells))
         THEN collected \o <<"# !notebook-cell\n">> \o Head(cells).source \o <<"\n\n\n">>
         ELSE collected)

\* Mutant of JoinSourceCode: the last separator is kept.
JoinSourceCode_keep_last(collected) == Join("", collected \o <<"\n">>)

\* "".join(source_code[:-1] + ["\n"])
JoinSourceCode(collected) ==
  Join("", SubSeq(collected, 1, Len(collected) - 1) \o <<"\n">>)

extract_source_code(nb) == JoinSourceCode(SourceCodeList(nb.cells, <<>>))

\* Mutant of RequirementsStr: the requirements without their quotes.
RequirementsStr_unquoted(requirements) == "[" \o Join(", ", requirements) \o "]"

\* "[" + ", ".join(['"{}"'.format(r) for r in requirements]) + "]"
RequirementsStr(requirements) ==
  "[" \o Join(", ", [k \in 1..Len(requirements) |-> "\"" \o requirements[k] \o "\""]) \o "]"

get_setup_file_content(requirements, name, description) ==
  LET lines == << "from setuptools import find_packages, setup",
                  "",
                  "REQUIRED_PACKAGES = " \o RequirementsStr(requirements),
                  "setup(",
                  "    name=\"" \o name \o "\",",
                  "    version=\"1.0\",",
                  "    install_requires=REQUIRED_PACKAGES,",
                  "    packages=find_packages(),",
                  "    description=\"" \o description \o "\",",
                  ")" >>
  IN  Join("\n", lines) \o "\n"

-----------------------------------------------------------------------------
(* notebook.py: the package name.                                          *)

\* The ASCII letters, lower case and upper case, in the same order.
Letters == "abcdefghijklmnopqrstuvwxyz"

Capitals == "ABCDEFGHIJKLMNOPQRSTUVWXYZ"

\* The characters of a text, as a list.
Chars(s) == [i \in 1..Len(s) |-> At(s, i)]

\* str.lower() of one ASCII character.
LowerChar(c) ==
  IF \E i \in 1..Len(Capitals) : At(Capitals, i) = c
  THEN At(Letters, CHOOSE i \in 1..Len(Capitals) : At(Capitals, i) = c)
  ELSE c

\* str.lower()
Lower(s) == Join("", [i \in 1..Len(s) |-> LowerChar(At(s, i))])

\* str.replace(old, new) for a one-character old.
Replace(s, old, new) ==
  Join("", [i \in 1..Len(s) |-> IF At(s, i) = old THEN new ELSE At(s, i)])

\* re.sub(r"^[^a-z]+", "", name)
DropLeadingNonLetters(name) ==
  LET letters == {i \in 1..Len(name) : At(name, i) \in LowerCase}
  IN  IF letters = {} THEN "" ELSE SubSeq(name, Min(letters), Len(name))

\* re.sub(r"[^0-9a-z-]", "", name)
DropOtherCharacters(name) ==
  Join("", SelectSeq(Chars(name), LAMBDA c : c \in Digit \cup LowerCase \cup {"-"}))

\* Mutant of _sanitize_package_name: the leading non-letters are dropped
\* before the name is lowered.
_sanitize_package_name_lower_late(name) ==
  DropOtherCharacters(Replace(Lower(DropLeadingNonLetters(name)), "_", "-"))

_sanitize_package_name(name) ==
  DropOtherCharacters(DropLeadingNonLetters(Replace(Lower(name), "_", "-")))

-----------------------------------------------------------------------------
(* notebook.py: the package.  The build directory is the mapping from the  *)
(* paths of its files to their contents; directories are not kept apart    *)
(* from the files under them.                                              *)

\* os.path.join(a, b) for a non-empty relative b.
Path(a, b) == a \o "/" \o b

\* open(path, "w") and f.write(content): the file holds content.
WriteFile(files, path, content) ==
  [p \in DOMAIN files \cup {path} |-> IF p = path THEN content ELSE files[p]]

\* rmtree(dir, ignore_errors=True): no file under dir is left.
rmtree(files, dir) ==
  [p \in {q \in DOMAIN files : ~StartsWith(q, dir \o "/")} |-> files[p]]

\* Mutant of _read_notebook: every format version is accepted.
_read_notebook_any_version(file) == Return(file)

\* _read_notebook(path), given the notebook that json.load finds at the path.
_read_notebook(file) ==
  IF file.nbformat # 4
  THEN Raise("UnsupportedNotebookVersion",
             "Only notebook format version 4 (nbformat==4) is supported")
  ELSE Return(file)

\* The outcome of a packaging and the build directory it leaves.
Packaged(outcome, files) == [outcome |-> outcome, build |-> files]

\* Lines 83-84 of _create_package: model.py is open, empty, when its content
\* is computed, and is written if the computation returns.
WriteModel(files, path, content) ==
  IF ~content.ok THEN Packaged(content, files)
  ELSE Packaged(Return(None), WriteFile(files, path, content.value))

\* Lines 68-84 of _create_package.
WritePackage(requirements, source, available_operations, name, description, build_dir, files) ==
  LET name_path_format == Replace(name, "-", "_")
      package_dir      == Path(build_dir, name_path_format)
      module_dir       == Path(package_dir, name_path_format)
  IN  WriteModel(
        WriteFile(
          WriteFile(
            WriteFile(
              WriteFile(rmtree(files, build_dir), Path(package_dir, "__init__.py"), ""),
              Path(module_dir, "__init__.py"), ""),
            Path(package_dir, "setup.py"),
            get_setup_file_content(requirements, name, description)),
          Path(module_dir, "model.py"), ""),
        Path(module_dir, "model.py"),
        get_model_file_content(source, available_operations))

\* Lines 65-84 of _create_package, given the notebook read.
ExtractAndWrite(nb, available_operations, name, description, build_dir, files) ==
  IF ~nb.ok THEN Packaged(nb, files)
  ELSE IF ~extract_requirements(nb.value).ok
  THEN Packaged(extract_requirements(nb.value), files)
  ELSE WritePackage(extract_requirements(nb.value).value, extract_source_code(nb.value),
                    available_operations, name, description, build_dir, files)

_create_package(file, available_operations, name, description, build_dir, files) ==
  ExtractAndWrite(_read_notebook(file), available_operations, name, description, build_dir, files)

\* range(10) of _wait_on_uploaded_source_package
Attempts == 10

-----------------------------------------------------------------------------
(* Inputs: source texts built from candidate lines.                        *)

\* The most lines a source text holds.
MaxLines == 3

\* The text of the given lines, each ended by a newline.
RECURSIVE LinesText(_)
LinesText(lines) ==
  IF lines = <<>> THEN "" ELSE lines[1] \o "\n" \o LinesText(Tail(lines))

\* Every text of at most n lines drawn from the candidate lines.
SourcesOver(candidates, n) ==
  {LinesText([k \in DOMAIN pick |-> candidates[pick[k]]]) :
     pick \in UNION {[1..m -> 1..Len(candidates)] : m \in 0..n}}

\* Candidate lines for the signature lookup and validation.
SignatureLines ==
  << "def train_model(open_artifact):",
     "def train_model(open_artifact, data_spec): ",
     "def train_model():",
     "def train_model(open_artifacts):",
     "def train_model(open_artifact): # t",
     "def load_model(open_artifact):",
     "def load_model(open_artifact, x):",
     "def predict(model, instance, some_argument):",
     "def predict(instance):",
     "    def predict(instance):",
     "def predict(instance=f(x)):" >>

\* Candidate lines for the glue synthesis.
ModelLines ==
  << "def train_model(open_artifact, data_spec, b):",
     "def train_model(open_artifact):",
     "def load_model(open_artifact):",
     "def predict(model, instance, some_argument):",
     "def predict(instance,x , y):",
     "    pass",
     "def predict(instance, a, a):",
     "def train_model(data_spec):",
     "def train_model(open_artifact, b , b):" >>

\* The most cells a notebook holds.
MaxCells == 2

\* A cell of a notebook.
Cell(cell_type, metadata, source) ==
  [cell_type |-> cell_type, metadata |-> metadata, source |-> source]

\* Metadata without tags, and metadata with the given tags.
NoTags == <<>>

Tags(tags) == [tags |-> tags]

\* Candidate cells for the requirement extraction.
RequirementCells ==
  << Cell("raw", Tags(<<"requirements">>),
          <<"numpy==1.2.3\n ", "\n", "pandas", "scikit-learn==0.1.0">>),
     Cell("raw", Tags(<<"requirements">>), <<"numpy 0.1\n", "numpy=1.2.3">>),
     Cell("raw", Tags(<<"requirements">>), <<"# numpy\n", " \n", "", "\tpandas ">>),
     Cell("raw", NoTags, <<"numpy==1.2.3\n ", "pandas">>),
     Cell("raw", Tags(<<"model">>), <<"numpy">>),
     Cell("code", NoTags,
          <<"# !requirements  \n", "# numpy>=1.9.3\n ", "\n", "# pandas", "#scikit-learn==0.1.0">>),
     Cell("code", NoTags, <<"# !requirements  \n", "numpy>=1.9.3">>),
     Cell("code", NoTags, <<"# !requirements\n", "", "# numpy">>),
     Cell("code", NoTags, <<"#!requirements", "#numpy 0.1", "#\n", "# pandas=1">>),
     Cell("code", NoTags, <<" # !requirements\n", "# numpy">>),
     Cell("code", Tags(<<"requirements">>), <<"print('hello')\n", "a = 5">>),
     Cell("code", NoTags, <<>>),
     Cell("markdown", NoTags, <<"# !requirements\n", "# numpy">>) >>

\* A cell without metadata.
BareCell(cell_type, source) == [cell_type |-> cell_type, source |-> source]

\* Candidate cells for the extraction of the model code.
ModelCells ==
  << BareCell("code", <<"# !model\n", "abc\n", "ghi">>),
     BareCell("raw", <<"this should be ignored">>),
     BareCell("code", <<"this should be ignored">>),
     Cell("code", Tags(<<"model">>), <<"cool_code()">>),
     Cell("code", Tags(<<"unknown-tag">>), <<>>),
     Cell("code", NoTags, <<"#!model\n", "a()">>),
     Cell("code", NoTags, <<"#  !model  ", "b()\n">>),
     Cell("code", NoTags, <<"# !model\t\n", "c()">>),
     Cell("raw", Tags(<<"model">>), <<"d()">>),
     Cell("code", Tags(<<"model">>), <<>>),
     Cell("code", NoTags, <<"x = 1\n", "# !model\n">>),
     Cell("markdown", NoTags, <<"# !model\n">>) >>

\* Every notebook of format 4 with at most n cells drawn from the candidates.
NotebooksOver(candidates, n) ==
  {[nbformat |-> 4, cells |-> [k \in DOMAIN pick |-> candidates[pick[k]]]] :
     pick \in UNION {[1..m -> 1..Len(candidates)] : m \in 0..n}}

\* The longest name of a model version.
MaxName == 3

\* The characters names are made of.
NameCharacters == {"s", "H", "1", "_", "-", "#"}

\* Every name of at most n characters.
RECURSIVE NamesOver(_, _)
NamesOver(characters, n) ==
  IF n = 0 THEN {""}
  ELSE NamesOver(characters, n - 1)
         \cup {name \o c : name \in NamesOver(characters, n - 1), c \in characters}

\* The most requirements a manifest is written for.
MaxRequirements == 2

\* Candidate requirements, package names and descriptions of a manifest.
Requirements == <<"numpy", "pandas==1.2.3", "scikit-learn>=0.1", "a">>

ManifestNames == {"some_name", "a"}

Descriptions == {"some description", ""}

\* Every list of at most n candidates.
ListsOver(candidates, n) ==
  {[k \in DOMAIN pick |-> candidates[pick[k]]] :
     pick \in UNION {[1..m -> 1..Len(candidates)] : m \in 0..n}}

\* No files.
NoFiles == [path \in {} |-> ""]

\* Nothing is being packaged or deployed.
NoDeployment ==
  /\ build = NoFiles
  /\ calls = <<>>
  /\ pc = "idle"
  /\ attempt = 0
  /\ source_package = None

\* Candidate cells for the packaging.
PackageCells ==
  << Cell("raw", Tags(<<"requirements">>), <<"numpy">>),
     Cell("raw", Tags(<<"requirements">>), <<"numpy 0.1">>),
     Cell("code", Tags(<<"model">>), <<"def predict(instance):\n", "    pass">>),
     Cell("code", Tags(<<"model">>), <<"def train_model(open_artifact):\n", "    pass">>),
     Cell("code", NoTags,
          <<"# !model\n", "def train_model(open_artifact):\n", "    pass\n",
            "def predict(instance):\n", "    pass">>) >>

\* The format versions of the candidate notebooks.
NotebookFormats == {3, 4, 5}

\* The files an earlier packaging left.
PreviousBuild ==
  [path \in {"build/some_name/setup.py", "build/some_name/some_name/model.py",
             "build/old/setup.py"} |-> "old"]

\* The names and the description of the model versions to deploy.
ModelVersionNames == {"123some_name", "My-Model"}

ModelVersionDescription == "some description"

\* The arguments before a function is called.
NoArguments == [available_operations |-> "", name |-> ""]

\* The ids the model hosting client answers with.
SourcePackageIds == {11, 12}

ModelVersionIds == {21, 22}

\* The tracked function names.
\* Candidate lines for the order of the failures: each function in a valid
\* and in a failing form, so that one text fails in several ways.
OrderLines ==
  << "def train_model(x):",
     "def train_model(open_artifact, a, a):",
     "def train_model(open_artifact):",
     "def load_model():",
     "def load_model(open_artifact):",
     "def predict(instance, b, b):",
     "def predict(model, instance):",
     "def predict(instance):" >>

FunctionNames == {"train_model", "load_model", "predict"}

\* A notebook without cells, for the specifications that read no notebook.
NoNotebook == [nbformat |-> 4, cells |-> <<>>]

-----------------------------------------------------------------------------
(* Operations on a source text: each behaviour is one call on one input.    *)

GetFunctionSignature ==
  \E function_name \in FunctionNames :
    /\ op = "input"
    /\ op' = "_get_function_signature"
    /\ arg' = function_name
    /\ result' = _get_function_signature(source_code, function_name)
    /\ UNCHANGED <<source_code, notebook, deployment>>

SourceCodeHasTrain ==
  /\ op = "input"
  /\ op' = "_source_code_has_train"
  /\ arg' = ""
  /\ result' = _source_code_has_train(source_code)
  /\ UNCHANGED <<source_code, notebook, deployment>>

SourceCodeHasLoadAndPredict ==
  /\ op = "input"
  /\ op' = "_source_code_has_load_and_predict"
  /\ arg' = ""
  /\ result' = _source_code_has_load_and_predict(source_code)
  /\ UNCHANGED <<source_code, notebook, deployment>>

GetModelFileContent ==
  \E available_operations \in AvailableOperations :
    /\ op = "input"
    /\ op' = "get_model_file_content"
    /\ arg' = available_operations
    /\ result' = get_model_file_content(source_code, available_operations)
    /\ UNCHANGED <<source_code, notebook, deployment>>

ExtractRequirements ==
  /\ op = "input"
  /\ op' = "extract_requirements"
  /\ arg' = ""
  /\ result' = extract_requirements(notebook)
  /\ UNCHANGED <<source_code, notebook, deployment>>

ExtractRawRequirementCell ==
  \E k \in 1..Len(notebook.cells) :
    /\ op = "input"
    /\ _is_raw_requirement_cell(notebook.cells[k])
    /\ op' = "_extract_raw_requirement_cell"
    /\ arg' = k
    /\ result' = Return(_extract_raw_requirement_cell(notebook.cells[k]))
    /\ UNCHANGED <<source_code, notebook, deployment>>

ExtractCommentRequirementCell ==
  \E k \in 1..Len(notebook.cells) :
    /\ op = "input"
    /\ _is_comment_requirement_cell(notebook.cells[k])
    /\ op' = "_extract_comment_requirement_cell"
    /\ arg' = k
    /\ result' = _extract_comment_requirement_cell(notebook.cells[k])
    /\ UNCHANGED <<source_code, notebook, deployment>>

ExtractSourceCode ==
  /\ op = "input"
  /\ op' = "extract_source_code"
  /\ arg' = ""
  /\ result' = Return(extract_source_code(notebook))
  /\ UNCHANGED <<source_code, notebook, deployment>>

\* _sanitize_package_name(name) on the name held in arg.
SanitizePackageName ==
  /\ op = "input"
  /\ op' = "_sanitize_package_name"
  /\ result' = Return(_sanitize_package_name(arg))
  /\ UNCHANGED <<source_code, notebook, arg, deployment>>

\* _sanitize_package_name on a name it returned.
SanitizeSanitizedName ==
  /\ op = "_sanitize_package_name"
  /\ op' = "_sanitize_package_name again"
  /\ arg' = result.value
  /\ result' = Return(_sanitize_package_name(result.value))
  /\ UNCHANGED <<source_code, notebook, deployment>>

\* get_setup_file_content on the requirements, name and description held in arg.
GetSetupFileContent ==
  /\ op = "input"
  /\ op' = "get_setup_file_content"
  /\ result' = Return(get_setup_file_content(arg.requirements, arg.name, arg.description))
  /\ UNCHANGED <<source_code, notebook, arg, deployment>>

\* _read_notebook on the notebook file.
ReadNotebook ==
  /\ op = "input"
  /\ op' = "_read_notebook"
  /\ result' = _read_notebook(notebook)
  /\ UNCHANGED <<source_code, notebook, arg, deployment>>

\* _create_package on the notebook file, into the build directory.
CreatePackage ==
  /\ op = "input"
  /\ \E available_operations \in AvailableOperations, name \in ModelVersionNames :
       \E package \in {_create_package(notebook, available_operations,
                                       _sanitize_package_name(name),
                                       ModelVersionDescription, "build", build)} :
         /\ op' = "_create_package"
         /\ arg' = [available_operations |-> available_operations,
                    name |-> _sanitize_package_name(name)]
         /\ result' = package.outcome
         /\ build' = package.build
         /\ UNCHANGED <<source_code, notebook, calls, pc, attempt, source_package>>

\* Lines 145-155 and 206-216: the function is entered and the package is
\* created; an exception of _create_package ends the call.
EnterAndPackage(function, available_operations) ==
  /\ op = "input"
  /\ \E name \in ModelVersionNames :
       \E package \in {_create_package(notebook, available_operations,
                                       _sanitize_package_name(name),
                                       ModelVersionDescription, "build", build)} :
         /\ op' = function
         /\ arg' = [available_operations |-> available_operations, name |-> name]
         /\ build' = package.build
         /\ IF package.outcome.ok
            THEN pc' = "build_and_upload_source_package" /\ result' = result
            ELSE pc' = "raised" /\ result' = package.outcome
         /\ UNCHANGED <<source_code, notebook, calls, attempt, source_package>>

\* Mutant of deploy_model_version: the package is built for training too.
deploy_model_version_with_train == EnterAndPackage("deploy_model_version", "PREDICT_TRAIN")

deploy_model_version == EnterAndPackage("deploy_model_version", "PREDICT")

train_and_deploy_model_version ==
  EnterAndPackage("train_and_deploy_model_version", "PREDICT_TRAIN")

\* Mutant of BuildAndUploadSourcePackage: the deployment follows the upload
\* without waiting.
BuildAndUploadSourcePackage_no_wait ==
  /\ pc = "build_and_upload_source_package"
  /\ \E id \in SourcePackageIds :
       /\ calls' = Append(calls,
            [call |-> "build_and_upload_source_package",
             name |-> arg.name,
             package_directory |-> Path("build", Replace(_sanitize_package_name(arg.name), "-", "_")),
             id |-> id])
       /\ source_package' = Some(id)
  /\ pc' = "models." \o op
  /\ attempt' = 0
  /\ UNCHANGED <<source_code, notebook, op, arg, result, build>>

\* Lines 157-163 and 218-224: the client builds and uploads the package and
\* answers with the id of the source package.
BuildAndUploadSourcePackage ==
  /\ pc = "build_and_upload_source_package"
  /\ \E id \in SourcePackageIds :
       /\ calls' = Append(calls,
            [call |-> "build_and_upload_source_package",
             name |-> arg.name,
             package_directory |-> Path("build", Replace(_sanitize_package_name(arg.name), "-", "_")),
             id |-> id])
       /\ source_package' = Some(id)
  /\ pc' = "_wait_on_uploaded_source_package"
  /\ attempt' = 0
  /\ UNCHANGED <<source_code, notebook, op, arg, result, build>>

\* Mutant of WaitOnUploadedSourcePackage: one turn more before the timeout.
WaitOnUploadedSourcePackage_one_more ==
  /\ pc = "_wait_on_uploaded_source_package"
  /\ attempt < Attempts + 1
  /\ \E is_uploaded \in BOOLEAN :
       /\ calls' = calls \o
            << [call |-> "sleep", seconds |-> "0.5"],
               [call |-> "get_source_package", id |-> source_package[1],
                is_uploaded |-> is_uploaded] >>
       /\ IF is_uploaded
          THEN pc' = "models." \o op /\ UNCHANGED <<attempt, result>>
          ELSE IF attempt + 1 < Attempts + 1
          THEN attempt' = attempt + 1 /\ UNCHANGED <<pc, result>>
          ELSE /\ pc' = "raised"
               /\ result' = Raise("TimeoutError", "Uploading of source package timed out")
               /\ UNCHANGED attempt
  /\ UNCHANGED <<source_code, notebook, op, arg, build, source_package>>

\* One turn of the loop of _wait_on_uploaded_source_package: the sleep, the
\* query and the client's answer; the turn that answers "uploaded" returns,
\* the last turn otherwise raises.
WaitOnUploadedSourcePackage ==
  /\ pc = "_wait_on_uploaded_source_package"
  /\ attempt < Attempts
  /\ \E is_uploaded \in BOOLEAN :
       /\ calls' = calls \o
            << [call |-> "sleep", seconds |-> "0.5"],
               [call |-> "get_source_package", id |-> source_package[1],
                is_uploaded |-> is_uploaded] >>
       /\ IF is_uploaded
          THEN pc' = "models." \o op /\ UNCHANGED <<attempt, result>>
          ELSE IF attempt + 1 < Attempts
          THEN attempt' = attempt + 1 /\ UNCHANGED <<pc, result>>
          ELSE /\ pc' = "raised"
               /\ result' = Raise("TimeoutError", "Uploading of source package timed out")
               /\ UNCHANGED attempt
  /\ UNCHANGED <<source_code, notebook, op, arg, build, source_package>>

\* Lines 165-174 and 226-237: the client deploys the model version and the
\* function returns its id.
DeployCall ==
  /\ pc = "models." \o op
  /\ \E id \in ModelVersionIds :
       /\ calls' = Append(calls,
            [call |-> "models." \o op, name |-> arg.name,
             source_package_id |-> source_package[1], id |-> id])
       /\ result' = Return(id)
  /\ pc' = "returned"
  /\ UNCHANGED <<source_code, notebook, op, arg, build, attempt, source_package>>

InitSignature ==
  /\ source_code \in SourcesOver(SignatureLines, MaxLines)
  /\ notebook = NoNotebook
  /\ op = "input"
  /\ arg = ""
  /\ result = Return(<<>>)
  /\ NoDeployment

NextSignature == GetFunctionSignature \/ SourceCodeHasTrain \/ SourceCodeHasLoadAndPredict

SpecSignature == InitSignature /\ [][NextSignature]_vars

InitModelFile ==
  /\ source_code \in SourcesOver(ModelLines, MaxLines)
  /\ notebook = NoNotebook
  /\ op = "input"
  /\ arg = ""
  /\ result = Return(<<>>)
  /\ NoDeployment

NextModelFile == GetModelFileContent

SpecModelFile == InitModelFile /\ [][NextModelFile]_vars

InitSetupFile ==
  /\ source_code = ""
  /\ notebook \in NotebooksOver(RequirementCells, MaxCells)
  /\ op = "input"
  /\ arg = ""
  /\ result = Return(<<>>)
  /\ NoDeployment

NextSetupFile ==
  ExtractRequirements \/ ExtractRawRequirementCell \/ ExtractCommentRequirementCell

SpecSetupFile == InitSetupFile /\ [][NextSetupFile]_vars

InitSourceCode ==
  /\ source_code = ""
  /\ notebook \in NotebooksOver(ModelCells, MaxCells)
  /\ op = "input"
  /\ arg = ""
  /\ result = Return(<<>>)
  /\ NoDeployment

NextSourceCode == ExtractSourceCode

SpecSourceCode == InitSourceCode /\ [][NextSourceCode]_vars

InitPackageName ==
  /\ source_code = ""
  /\ notebook = NoNotebook
  /\ op = "input"
  /\ arg \in NamesOver(NameCharacters, MaxName)
  /\ result = Return(<<>>)
  /\ NoDeployment

NextPackageName == SanitizePackageName \/ SanitizeSanitizedName

SpecPackageName == InitPackageName /\ [][NextPackageName]_vars

InitSetupContent ==
  /\ source_code = ""
  /\ notebook = NoNotebook
  /\ op = "input"
  /\ arg \in [requirements : ListsOver(Requirements, MaxRequirements),
              name : ManifestNames,
              description : Descriptions]
  /\ result = Return(<<>>)
  /\ NoDeployment

NextSetupContent == GetSetupFileContent

SpecSetupContent == InitSetupContent /\ [][NextSetupContent]_vars

InitDeploy ==
  /\ source_code = ""
  /\ notebook \in {[nbformat |-> format, cells |-> nb.cells] :
                     format \in NotebookFormats,
                     nb \in NotebooksOver(PackageCells, MaxCells)}
  /\ op = "input"
  /\ arg = NoArguments
  /\ result = Return(<<>>)
  /\ build \in {NoFiles, PreviousBuild}
  /\ calls = <<>>
  /\ pc = "idle"
  /\ attempt = 0
  /\ source_package = None

NextDeploy ==
  \/ ReadNotebook
  \/ CreatePackage
  \/ deploy_model_version
  \/ train_and_deploy_model_version
  \/ BuildAndUploadSourcePackage
  \/ WaitOnUploadedSourcePackage
  \/ DeployCall

SpecDeploy == InitDeploy /\ [][NextDeploy]_vars

\* A turn of the polling loop that can be taken is taken: the sleep ends and
\* the client answers the query.
FairDeploy == SpecDeploy /\ WF_vars(WaitOnUploadedSourcePackage)


InitErrorOrder ==
  /\ source_code \in SourcesOver(OrderLines, MaxLines)
  /\ notebook = NoNotebook
  /\ op = "input"
  /\ arg = ""
  /\ result = Return(<<>>)
  /\ NoDeployment

NextErrorOrder == GetModelFileContent

SpecErrorOrder == InitErrorOrder /\ [][NextErrorOrder]_vars
-----------------------------------------------------------------------------
(* What the claims speak of, stated on the text itself.                    *)

\* The line is "def NAME(PARAMS):" and then only spaces, with the first ")"
\* of the line at position close.
DefinitionLineClosesAt(name, line, close) ==
  LET head == "def " \o name \o "("
  IN  /\ Len(head) < close
      /\ close < Len(line)
      /\ SubSeq(line, 1, Len(head)) = head
      /\ SubSeq(line, close, close + 1) = "):"
      /\ \A i \in (Len(head) + 1)..(close - 1) : At(line, i) # ")"
      /\ \A i \in (close + 2)..Len(line) : At(line, i) = " "

IsDefinitionLine(name, line) == \E close \in 1..Len(line) : DefinitionLineClosesAt(name, line, close)

\* The parameter strings of the definition lines of NAME in the text, in line order.
Signatures(text, name) ==
  LET lines == SelectSeq(Split(text, "\n"), LAMBDA line : IsDefinitionLine(name, line))
  IN  [k \in 1..Len(lines) |->
         SubSeq(lines[k], Len(name) + 6,
                (CHOOSE close \in 1..Len(lines[k]) :
                   DefinitionLineClosesAt(name, lines[k], close)) - 1)]

\* The parameter string is PREFIX alone or PREFIX, a comma and anything.
FirstParameters(parameters, prefix) ==
  \/ parameters = prefix
  \/ /\ Len(parameters) > Len(prefix)
     /\ SubSeq(parameters, 1, Len(prefix) + 1) = prefix \o ","

\* The call ended in the given exception class.
Raised(r, class) == ~r.ok /\ r.error = class

\* The text has at least one definition line of NAME.
Defined(text, name) == Len(Signatures(text, name)) > 0

\* The trimmed parameter names of a parameter string, in order.
ParameterNames(parameters) == StripEach(Split(parameters, ","))

\* The names after the first n of them, as one comma-separated text.
NamesAfter(parameters, n) ==
  Join(", ", SubSeq(ParameterNames(parameters), n + 1, Len(ParameterNames(parameters))))

\* The text defines train_model alone: once, open_artifact first, no name twice.
OnlyValidTrain(text) ==
  /\ Len(Signatures(text, "train_model")) = 1
  /\ FirstParameters(Signatures(text, "train_model")[1], "open_artifact")
  /\ \A i, j \in 1..Len(ParameterNames(Signatures(text, "train_model")[1])) :
       i # j => ParameterNames(Signatures(text, "train_model")[1])[i]
                  # ParameterNames(Signatures(text, "train_model")[1])[j]
  /\ ~Defined(text, "load_model")
  /\ ~Defined(text, "predict")

\* The lines of the wrapper class that follow the source text and the
\* "class Model:" line in a synthesized content.
WrapperLines(content, source) ==
  Split(SubSeq(content, Len(source \o "\n\n" \o _glue_code_start \o "\n") + 1, Len(content)), "\n")

\* The first line equal to TEXT, or starting with it when PREFIX; 0 when none.
LineOf(lines, text, prefix) ==
  LET hits == {k \in 1..Len(lines) : IF prefix THEN StartsWith(lines[k], text) ELSE lines[k] = text}
  IN  IF hits = {} THEN 0 ELSE Min(hits)

\* get_model_file_content returned a content.
Synthesized == op = "get_model_file_content" /\ result.ok

\* A text of n spaces.
RECURSIVE Spaces(_)
Spaces(n) == IF n = 0 THEN "" ELSE " " \o Spaces(n - 1)

\* The line is the requirements marker: "#", spaces, "!requirements", spaces
\* and at most one newline.
IsRequirementsMarker(line) ==
  \E a \in 0..Len(line), b \in 0..Len(line), newline \in {"", "\n"} :
    line = "#" \o Spaces(a) \o "!requirements" \o Spaces(b) \o newline

\* The cell is a raw cell tagged "requirements".
TaggedRaw(cell) ==
  /\ cell.cell_type = "raw"
  /\ "tags" \in DOMAIN cell.metadata
  /\ \E k \in 1..Len(cell.metadata.tags) : cell.metadata.tags[k] = "requirements"

\* The cell is a code cell whose first line is the requirements marker.
CommentMarked(cell) ==
  /\ cell.cell_type = "code"
  /\ Len(cell.source) > 0
  /\ IsRequirementsMarker(cell.source[1])

\* The positions of the tagged raw cells and of the comment-marked code cells.
RawCells == {k \in 1..Len(notebook.cells) : TaggedRaw(notebook.cells[k])}

CommentCells == {k \in 1..Len(notebook.cells) : CommentMarked(notebook.cells[k])}

\* The single qualifying cell of a notebook that has exactly one.
TheRequirementCell == notebook.cells[CHOOSE k \in RawCells \cup CommentCells : TRUE]

\* The line is empty or whitespace only.
Blank(line) == \A i \in 1..Len(line) : At(line, i) \in Whitespace

\* A non-blank line without its surrounding whitespace.
Trimmed(line) ==
  LET inked == {i \in 1..Len(line) : At(line, i) \notin Whitespace}
  IN  SubSeq(line, Min(inked), Max(inked))

\* The non-blank lines, in order.
NonBlank(lines) == SelectSeq(lines, LAMBDA line : ~Blank(line))

\* The comparison operators of a specifier.
Comparisons == {"<", "<=", "!=", "==", ">=", ">", "~=", "==="}

\* The specifier is a name (lower-case letters, digits, "_", "-", ".", the
\* first a letter or a digit), alone or followed by a comparison and a
\* non-empty version without space or newline.
WellFormed(specifier) ==
  LET ends  == {n \in 0..Len(specifier) :
                  /\ \A i \in 1..n : At(specifier, i) \in LowerCase \cup Digit \cup {"_", "-", "."}
                  /\ n < Len(specifier) =>
                       At(specifier, n + 1) \notin LowerCase \cup Digit \cup {"_", "-", "."}}
      name == Max(ends)
  IN  /\ name >= 1
      /\ At(specifier, 1) \notin {"_", "-", "."}
      /\ \/ name = Len(specifier)
         \/ \E comparison \in Comparisons :
              /\ Len(specifier) > name + Len(comparison)
              /\ SubSeq(specifier, name + 1, name + Len(comparison)) = comparison
              /\ \A i \in (name + Len(comparison) + 1)..Len(specifier) :
                   At(specifier, i) \notin {" ", "\n"}

\* The specifiers extracted from the single qualifying cell, before the
\* grammar check.
Extracted ==
  IF TaggedRaw(TheRequirementCell)
  THEN Return(_extract_raw_requirement_cell(TheRequirementCell))
  ELSE _extract_comment_requirement_cell(TheRequirementCell)

\* The positions of the specifiers that are not well formed.
IllFormed(specifiers) == {k \in 1..Len(specifiers) : ~WellFormed(specifiers[k])}

\* extract_requirements was called on a notebook with one qualifying cell.
ExtractedFromOne ==
  op = "extract_requirements" /\ Cardinality(RawCells \cup CommentCells) = 1

\* The line is "#", spaces, "!model", spaces and at most one newline.
IsModelMarker(line) ==
  \E a \in 0..Len(line), b \in 0..Len(line), newline \in {"", "\n"} :
    line = "#" \o Spaces(a) \o "!model" \o Spaces(b) \o newline

\* The line is "# !model" followed by nothing but whitespace.
IsExactModelMarker(line) ==
  /\ StartsWith(line, "# !model")
  /\ Blank(SubSeq(line, Len("# !model") + 1, Len(line)))

\* The cell's metadata tags contain "model".
TaggedModel(cell) ==
  /\ "metadata" \in DOMAIN cell
  /\ "tags" \in DOMAIN cell.metadata
  /\ \E k \in 1..Len(cell.metadata.tags) : cell.metadata.tags[k] = "model"

\* The cell is a code cell with a non-empty source.
CodeWithSource(cell) == cell.cell_type = "code" /\ Len(cell.source) > 0

\* The positions, in document order, of the cells to include: with the
\* marker as the pattern has it, and with the marker "# !model" exactly.
IncludedCells ==
  Ascending({k \in 1..Len(notebook.cells) :
    /\ CodeWithSource(notebook.cells[k])
    /\ TaggedModel(notebook.cells[k]) \/ IsModelMarker(notebook.cells[k].source[1])})

ExactlyMarkedCells ==
  Ascending({k \in 1..Len(notebook.cells) :
    /\ CodeWithSource(notebook.cells[k])
    /\ TaggedModel(notebook.cells[k]) \/ IsExactModelMarker(notebook.cells[k].source[1])})

\* The lines of a cell as one text.
CellText(cell) == Join("", cell.source)

\* The text holds as many "# !notebook-cell" lines as there are included
\* cells, and the text after the j-th of them begins with the j-th included
\* cell.
HoldsCells(text, included) ==
  LET lines == Split(text, "\n")
      marks == Ascending({i \in 1..Len(lines) : lines[i] = "# !notebook-cell"})
  IN  /\ Len(marks) = Len(included)
      /\ \A j \in 1..Len(marks) :
           StartsWith(
             Join("\n", SubSeq(lines, marks[j] + 1,
                               IF j < Len(marks) THEN marks[j + 1] - 1 ELSE Len(lines))),
             CellText(notebook.cells[included[j]]))

\* The text of the included cells from the j-th on: the marker line, the
\* cell, and three newlines before the next or one after the last.
RECURSIVE CellsText(_, _)
CellsText(included, j) ==
  IF j > Len(included) THEN ""
  ELSE "# !notebook-cell\n" \o CellText(notebook.cells[included[j]])
       \o (IF j < Len(included) THEN "\n\n\n" ELSE "\n")
       \o CellsText(included, j + 1)

\* The parameter string holds the same trimmed name twice.
HasDuplicate(parameters) ==
  \E i, j \in 1..Len(ParameterNames(parameters)) :
    i < j /\ ParameterNames(parameters)[i] = ParameterNames(parameters)[j]

\* A definition line of train_model or of predict in the text holds the same
\* name twice.
DuplicateIn(text) ==
  \E name \in {"train_model", "predict"} :
    \E k \in 1..Len(Signatures(text, name)) : HasDuplicate(Signatures(text, name)[k])

\* The name in lower case with hyphens for underscores, character by
\* character.
Hyphenated(name) ==
  [i \in 1..Len(name) |->
     IF At(name, i) = "_" THEN "-"
     ELSE IF \E k \in 1..Len(Capitals) : At(Capitals, k) = At(name, i)
     THEN At(Letters, CHOOSE k \in 1..Len(Capitals) : At(Capitals, k) = At(name, i))
     ELSE At(name, i)]

\* The characters of a package name, and its letters.
PackageCharacters == {At(Letters, i) : i \in 1..Len(Letters)} \cup Digit \cup {"-"}

PackageLetters == {At(Letters, i) : i \in 1..Len(Letters)}

\* The text is empty, or starts with a lower-case letter and holds package
\* characters only.
IsPackageName(text) ==
  \/ text = ""
  \/ /\ At(text, 1) \in PackageLetters
     /\ \A i \in 1..Len(text) : At(text, i) \in PackageCharacters

\* The package characters of the hyphenated name from its first letter on.
RECURSIVE Sanitized(_, _, _)
Sanitized(hyphenated, i, started) ==
  IF i > Len(hyphenated) THEN ""
  ELSE IF ~started /\ hyphenated[i] \notin PackageLetters
  THEN Sanitized(hyphenated, i + 1, FALSE)
  ELSE (IF hyphenated[i] \in PackageCharacters THEN hyphenated[i] ELSE "")
       \o Sanitized(hyphenated, i + 1, TRUE)

\* The requirements from the k-th on, each in double quotes, with ", "
\* between them.
RECURSIVE QuotedFrom(_, _)
QuotedFrom(requirements, k) ==
  IF k > Len(requirements) THEN ""
  ELSE (IF k > 1 THEN ", " ELSE "") \o "\"" \o requirements[k] \o "\""
       \o QuotedFrom(requirements, k + 1)

\* The manifest of the test: its inputs and its text.
ReferenceInput ==
  [requirements |-> <<"numpy", "pandas==1.2.3">>,
   name |-> "some_name",
   description |-> "some description"]

ReferenceManifest ==
  "from setuptools import find_packages, setup\n\nREQUIRED_PACKAGES = [\"numpy\", \"pandas==1.2.3\"]\nsetup(\n    name=\"some_name\",\n    version=\"1.0\",\n    install_requires=REQUIRED_PACKAGES,\n    packages=find_packages(),\n    description=\"some description\",\n)\n"

\* A deployment function was called.
Deploying == op \in {"deploy_model_version", "train_and_deploy_model_version"}

\* The notebook has format 4 and its requirements can be extracted.
Packageable == notebook.nbformat = 4 /\ extract_requirements(notebook).ok

\* The four files of the package of the given name under build.
PackageFiles(name) ==
  LET directory == Replace(name, "-", "_")
  IN  [package_init |-> "build/" \o directory \o "/__init__.py",
       setup        |-> "build/" \o directory \o "/setup.py",
       module_init  |-> "build/" \o directory \o "/" \o directory \o "/__init__.py",
       model        |-> "build/" \o directory \o "/" \o directory \o "/model.py"]

\* The files among paths that are in after and were not in before, or not
\* with this content.
WrittenBetween(before, after, paths) ==
  {p \in paths \cap DOMAIN after : p \notin DOMAIN before \/ after[p] # before[p]}

\* The files hold the whole package of the given name: the four files, with
\* a manifest and a model that are not empty.
HoldsPackage(files, name) ==
  /\ \A f \in DOMAIN PackageFiles(name) : PackageFiles(name)[f] \in DOMAIN files
  /\ files[PackageFiles(name).setup] # ""
  /\ files[PackageFiles(name).model] # ""

\* The positions in calls of the calls of the given name.
CallsOf(name) == {k \in 1..Len(calls) : calls[k].call = name}

\* The positions of the uploads, of the status queries, of the queries
\* answered "not uploaded" and of the deployments.
Uploads == CallsOf("build_and_upload_source_package")

Queries == CallsOf("get_source_package")

FailedQueries == {k \in Queries : ~calls[k].is_uploaded}

Deployments ==
  CallsOf("models.deploy_model_version") \cup CallsOf("models.train_and_deploy_model_version")

\* The function is past the polling: it raised, returned or goes on to deploy.
PastWaiting == pc # "_wait_on_uploaded_source_package"

\* The number of definition lines of NAME in the text.
Count(text, name) == Len(Signatures(text, name))

\* The failure conditions of get_model_file_content on a text and a
\* capability, in the order they are looked for: what each is, the stage of
\* the order it belongs to, whether it holds and the message it is reported
\* with.
Failures(text, capability) ==
  LET train        == Count(text, "train_model")
      load         == Count(text, "load_model")
      predict      == Count(text, "predict")
      wants_train   == capability \in {"TRAIN", "PREDICT_TRAIN"}
      wants_predict == capability \in {"PREDICT", "PREDICT_TRAIN"}
  IN  << [what  |-> "train_model twice", stage |-> 1,
          holds |-> train > 1,
          msg   |-> "Multiple definitions of train_model()"],
         [what  |-> "train_model shape", stage |-> 1,
          holds |-> train = 1
                      /\ ~FirstParameters(Signatures(text, "train_model")[1], "open_artifact"),
          msg   |-> "train_model() must have open_artifact as first parameter"],
         [what  |-> "load_model twice", stage |-> 2,
          holds |-> load > 1,
          msg   |-> "Multiple definitions of load_model()"],
         [what  |-> "load_model shape", stage |-> 2,
          holds |-> load = 1 /\ Signatures(text, "load_model")[1] # "open_artifact",
          msg   |-> "load_model() must have open_artifact as the only parameter"],
         [what  |-> "predict twice", stage |-> 3,
          holds |-> predict > 1,
          msg   |-> "Multiple definitions of predict()"],
         [what  |-> "predict shape after load_model", stage |-> 3,
          holds |-> predict = 1 /\ load = 1
                      /\ ~FirstParameters(Signatures(text, "predict")[1], "model, instance"),
          msg   |-> "predict() must have model as first parameter and instance as second parameter"],
         [what  |-> "predict shape", stage |-> 3,
          holds |-> predict = 1 /\ load = 0
                      /\ ~FirstParameters(Signatures(text, "predict")[1], "instance"),
          msg   |-> "predict() must have instance as first parameter"],
         [what  |-> "load_model without predict", stage |-> 3,
          holds |-> load = 1 /\ predict = 0,
          msg   |-> "A load_model() function was specified, but not a predict() function"],
         [what  |-> "train_model missing", stage |-> 4,
          holds |-> wants_train /\ train = 0,
          msg   |-> "Missing required train_model() function"],
         [what  |-> "predict missing", stage |-> 4,
          holds |-> wants_predict /\ predict = 0,
          msg   |-> "Missing required predict() functions"],
         [what  |-> "train_model not asked for", stage |-> 4,
          holds |-> ~wants_train /\ train = 1,
          msg   |-> "A train_model() function should not be defined when no training is performed in Model Hosting"],
         [what  |-> "predict not asked for", stage |-> 4,
          holds |-> ~wants_predict /\ predict = 1,
          msg   |-> "A predict() function should not be defined when no prediction is performed in Model Hosting"],
         [what  |-> "train_model repeats a name", stage |-> 5,
          holds |-> train = 1 /\ HasDuplicate(Signatures(text, "train_model")[1]),
          msg   |-> "Duplicate parameters in train_model()"],
         [what  |-> "predict repeats a name", stage |-> 5,
          holds |-> predict = 1 /\ HasDuplicate(Signatures(text, "predict")[1]),
          msg   |-> "Duplicate parameters in predict()"] >>

\* The places in Failures of the conditions that hold.
Holding(failures) == {k \in 1..Len(failures) : failures[k].holds}

\* The places in Failures of the conditions of one stage, and of one condition.
Stage(failures, n) == {k \in 1..Len(failures) : failures[k].stage = n}

Named(failures, what) == CHOOSE k \in 1..Len(failures) : failures[k].what = what

\* The text holds the part somewhere.
Contains(text, part) ==
  \E i \in 1..(Len(text) - Len(part) + 1) : SubSeq(text, i, i + Len(part) - 1) = part

\* The lines that open a method of the wrapper class.
MethodLines(lines) == {k \in 1..Len(lines) : StartsWith(lines[k], "    def ")}

\* A line of the wrapper class, other than one opening a method, calls NAME.
CallsFunction(lines, name) ==
  \E k \in (1..Len(lines)) \ MethodLines(lines) : Contains(lines[k], name \o "(")

\* A line of the wrapper class reads self._model (the constructor assigns it).
ReadsModel(lines) ==
  \E k \in 1..Len(lines) :
    Contains(lines[k], "self._model") /\ ~Contains(lines[k], "self._model =")

\* The lines of the wrapper class on which load builds the wrapper.
BuildsWrapper(lines) == {k \in 1..Len(lines) : Contains(lines[k], "return Model(")}

-----------------------------------------------------------------------------
(* Claims.                                                                 *)

\* C1: get_model_file_content returns a content only when train_model is
\* defined iff the capability is TRAIN or PREDICT_TRAIN and predict is defined
\* iff it is PREDICT or PREDICT_TRAIN; each mismatch raises InvalidCodeFormat.
\* A text that defines only a valid train_model succeeds under TRAIN and
\* fails under PREDICT.
C1_CapabilitiesMatch ==
  op = "get_model_file_content" =>
    /\ Defined(source_code, "train_model") # (arg \in {"TRAIN", "PREDICT_TRAIN"})
         => Raised(result, "InvalidCodeFormat")
    /\ Defined(source_code, "predict") # (arg \in {"PREDICT", "PREDICT_TRAIN"})
         => Raised(result, "InvalidCodeFormat")
    /\ OnlyValidTrain(source_code) /\ arg = "TRAIN" => result.ok
    /\ OnlyValidTrain(source_code) /\ arg = "PREDICT" => Raised(result, "InvalidCodeFormat")

\* A text defining only a valid train_model() was synthesized under TRAIN.
C1_Witness ==
  /\ Synthesized
  /\ arg = "TRAIN"
  /\ OnlyValidTrain(source_code)

\* C5: a synthesized content is the source text, a blank line and the wrapper
\* class, which holds the constructor iff load_model is defined, train iff
\* train_model is defined, load iff predict is defined (wrapping
\* load_model(open_artifact) iff load_model is defined, else Model()), predict
\* iff predict is defined (passing self._model first iff load_model is
\* defined), in the order constructor, train, load, predict.
C5_WrapperParts ==
  Synthesized =>
    LET lines       == WrapperLines(result.value, source_code)
        constructor == LineOf(lines, "    def __init__(self, model):", FALSE)
        train       == LineOf(lines, "    def train(open_artifact, ", TRUE)
        load        == LineOf(lines, "    def load(open_artifact):", FALSE)
        predict     == LineOf(lines, "    def predict(self, instance, ", TRUE)
        has_load    == Defined(source_code, "load_model")
    IN  /\ StartsWith(result.value, source_code \o "\n\n" \o _glue_code_start \o "\n")
        /\ (constructor > 0) = has_load
        /\ constructor > 0 => lines[constructor + 1] = "        self._model = model"
        /\ (train > 0) = Defined(source_code, "train_model")
        /\ train > 0 => /\ lines[train - 1] = "    @staticmethod"
                        /\ StartsWith(lines[train + 1], "        train_model(open_artifact, ")
        /\ (load > 0) = Defined(source_code, "predict")
        /\ load > 0 => /\ lines[load - 1] = "    @staticmethod"
                       /\ lines[load + 1] = IF has_load
                                            THEN "        return Model(load_model(open_artifact))"
                                            ELSE "        return Model()"
        /\ (predict > 0) = Defined(source_code, "predict")
        /\ predict > 0 => StartsWith(lines[predict + 1],
                                     IF has_load THEN "        return predict(self._model, instance, "
                                     ELSE "        return predict(instance, ")
        /\ constructor > 0 /\ train > 0 => constructor < train
        /\ constructor > 0 /\ load > 0 => constructor < load
        /\ train > 0 /\ load > 0 => train < load
        /\ load > 0 /\ predict > 0 => load < predict

\* A text defining train_model, load_model and predict was synthesized.
C5_Witness ==
  /\ Synthesized
  /\ Defined(source_code, "train_model")
  /\ Defined(source_code, "load_model")
  /\ Defined(source_code, "predict")

\* C6: in a synthesized content the parameters of train_model after the first,
\* and those of predict after instance (the first without load_model, the
\* second with it), appear name for name and in order both in the wrapper
\* method's parameter list and in its call of the user's function.
C6_ExtraParameters ==
  Synthesized =>
    LET lines    == WrapperLines(result.value, source_code)
        train    == LineOf(lines, "    def train(", TRUE)
        predict  == LineOf(lines, "    def predict(", TRUE)
        has_load == Defined(source_code, "load_model")
    IN  /\ Defined(source_code, "train_model") =>
             LET extra == NamesAfter(Signatures(source_code, "train_model")[1], 1)
             IN  /\ train > 0
                 /\ lines[train] = "    def train(open_artifact, " \o extra \o "):"
                 /\ lines[train + 1] = "        train_model(open_artifact, " \o extra \o ")"
        /\ Defined(source_code, "predict") =>
             LET extra == NamesAfter(Signatures(source_code, "predict")[1],
                                     IF has_load THEN 2 ELSE 1)
             IN  /\ predict > 0
                 /\ lines[predict] = "    def predict(self, instance, " \o extra \o "):"
                 /\ lines[predict + 1] =
                      (IF has_load THEN "        return predict(self._model, instance, "
                       ELSE "        return predict(instance, ") \o extra \o ")"

\* A predict() after load_model(), with a parameter of its own, was synthesized.
C6_Witness ==
  /\ Synthesized
  /\ Defined(source_code, "load_model")
  /\ NamesAfter(Signatures(source_code, "predict")[1], 2) = "some_argument"

\* C2: _source_code_has_load_and_predict returns (True, True) exactly when
\* load_model is defined once with parameter string "open_artifact" and predict
\* once with "model, instance" plus optional further parameters; (False, True)
\* exactly when load_model is not defined and predict is defined once with
\* "instance" plus optional further parameters; (False, False) exactly when
\* neither is defined; in every other case it raises InvalidCodeFormat, so
\* (True, False) is never returned.
C2_LoadAndPredictCases ==
  op = "_source_code_has_load_and_predict" =>
    LET load    == Signatures(source_code, "load_model")
        predict == Signatures(source_code, "predict")
    IN  IF /\ Len(load) = 1 /\ load[1] = "open_artifact"
           /\ Len(predict) = 1 /\ FirstParameters(predict[1], "model, instance")
        THEN result = Return(<<TRUE, TRUE>>)
        ELSE IF Len(load) = 0 /\ Len(predict) = 1 /\ FirstParameters(predict[1], "instance")
        THEN result = Return(<<FALSE, TRUE>>)
        ELSE IF Len(load) = 0 /\ Len(predict) = 0
        THEN result = Return(<<FALSE, FALSE>>)
        ELSE Raised(result, "InvalidCodeFormat")

\* A valid load_model() without any predict() was given and the call raised.
C2_Witness ==
  /\ op = "_source_code_has_load_and_predict"
  /\ Signatures(source_code, "load_model") = <<"open_artifact">>
  /\ Signatures(source_code, "predict") = <<>>
  /\ Raised(result, "InvalidCodeFormat")

\* C3: _source_code_has_train returns False when the text has no train_model
\* definition line, True when it has exactly one whose parameter string is
\* "open_artifact" alone or followed by a comma and anything, and raises
\* InvalidCodeFormat in every other case.
C3_TrainCases ==
  op = "_source_code_has_train" =>
    LET train == Signatures(source_code, "train_model")
    IN  IF Len(train) = 0 THEN result = Return(FALSE)
        ELSE IF Len(train) = 1 /\ FirstParameters(train[1], "open_artifact")
        THEN result = Return(TRUE)
        ELSE Raised(result, "InvalidCodeFormat")

\* A single train_model() with a further parameter was accepted.
C3_Witness ==
  /\ op = "_source_code_has_train"
  /\ Signatures(source_code, "train_model") = <<"open_artifact, data_spec">>
  /\ result = Return(TRUE)

\* C4: _get_function_signature counts only the lines that are, in full,
\* "def NAME(PARAMS):" plus trailing spaces, PARAMS reaching to the first ")".
\* No such line gives None, one gives its raw parameter string, two or more
\* raise InvalidCodeFormat, identical signatures or not.
C4_SignatureLookup ==
  op = "_get_function_signature" =>
    LET found == Signatures(source_code, arg)
    IN  IF Len(found) = 0 THEN result = Return(None)
        ELSE IF Len(found) = 1 THEN result = Return(Some(found[1]))
        ELSE Raised(result, "InvalidCodeFormat")

\* Two definitions with the same signature were looked up and the call raised.
C4_Witness ==
  /\ op = "_get_function_signature"
  /\ Len(Signatures(source_code, arg)) = 2
  /\ Signatures(source_code, arg)[1] = Signatures(source_code, arg)[2]
  /\ Raised(result, "InvalidCodeFormat")

(* C7: extract_requirements raises InvalidRequirements when the number of  *)
(* qualifying cells, tagged raw cells and comment-marked code cells        *)
(* counted together, is zero or at least two; it goes on to the extraction *)
(* only when exactly one cell qualifies; no cell qualifies under both      *)
(* forms.                                                                  *)
C7_RequirementCellCount ==
  op = "extract_requirements" =>
    /\ RawCells \cap CommentCells = {}
    /\ Cardinality(RawCells) + Cardinality(CommentCells) = 0 =>
         /\ Raised(result, "InvalidRequirements")
         /\ result.msg = "Couldn't find any requirements"
    /\ Cardinality(RawCells) + Cardinality(CommentCells) >= 2 =>
         /\ Raised(result, "InvalidRequirements")
         /\ result.msg = "Only one requirement cell is allowed, but found multiple"
    /\ Cardinality(RawCells) + Cardinality(CommentCells) = 1 =>
         /\ result.msg \notin {"Couldn't find any requirements",
                               "Only one requirement cell is allowed, but found multiple"}
         /\ Extracted.ok /\ IllFormed(Extracted.value) = {} => result = Extracted
         /\ ~Extracted.ok => result = Extracted

\* One cell of each form: the call fails.
C7_Witness ==
  /\ op = "extract_requirements"
  /\ Cardinality(RawCells) = 1
  /\ Cardinality(CommentCells) = 1
  /\ Raised(result, "InvalidRequirements")

(* C8: after the extraction every specifier is checked against the grammar *)
(* in full: extract_requirements returns the list only if every specifier  *)
(* is well formed, otherwise it raises InvalidRequirements naming the      *)
(* first specifier, in order, that is not; "numpy 0.1" and "numpy=1.2.3"   *)
(* are not well formed.                                                    *)
C8_GrammarChecked ==
  /\ ~WellFormed("numpy 0.1")
  /\ ~WellFormed("numpy=1.2.3")
  /\ ExtractedFromOne /\ Extracted.ok =>
       IF IllFormed(Extracted.value) = {}
       THEN result = Return(Extracted.value)
       ELSE /\ Raised(result, "InvalidRequirements")
            /\ result.msg = "Invalid format for the requirement "
                              \o Extracted.value[Min(IllFormed(Extracted.value))]

\* Two specifiers are not well formed and the first of them, which starts
\* with a well-formed prefix, is the one named.
C8_Witness ==
  /\ ExtractedFromOne
  /\ Extracted.ok
  /\ Cardinality(IllFormed(Extracted.value)) >= 2
  /\ result.msg = "Invalid format for the requirement numpy 0.1"

(* C9: for a comment-marked code cell the marker line is dropped; the      *)
(* remaining lines that are blank (empty or whitespace only) are skipped   *)
(* without error; a remaining non-blank line that does not start with "#"  *)
(* raises InvalidRequirements; otherwise the specifiers are the non-blank  *)
(* lines without the leading "#" and the surrounding whitespace, in line   *)
(* order (a line that leaves nothing gives no specifier).                  *)
C9_CommentCellExtraction ==
  op = "_extract_comment_requirement_cell" =>
    LET lines == NonBlank(Tail(notebook.cells[arg].source))
    IN  IF \E k \in 1..Len(lines) : ~StartsWith(lines[k], "#")
        THEN Raised(result, "InvalidRequirements")
        ELSE result = Return(SelectSeq(
               [k \in 1..Len(lines) |-> Strip(SubSeq(lines[k], 2, Len(lines[k])))],
               LAMBDA specifier : specifier # ""))

(* C10: for a tagged raw cell the extracted list is the source lines with  *)
(* the surrounding whitespace stripped and the empty results dropped, in   *)
(* the original order; a leading "#" stays, so that such a line fails the  *)
(* grammar check of extract_requirements.                                  *)
C10_RawCellExtraction ==
  /\ op = "_extract_raw_requirement_cell" =>
       LET lines == NonBlank(notebook.cells[arg].source)
       IN  result = Return([k \in 1..Len(lines) |-> Trimmed(lines[k])])
  /\ /\ ExtractedFromOne
     /\ TaggedRaw(TheRequirementCell)
     /\ \E k \in 1..Len(TheRequirementCell.source) :
          StartsWith(Strip(TheRequirementCell.source[k]), "#")
     => /\ Raised(result, "InvalidRequirements")
        /\ StartsWith(result.msg, "Invalid format for the requirement ")

\* The cell has a blank line, a line with surrounding whitespace and a line
\* starting with "#", which is returned with it.
C10_Witness ==
  /\ op = "_extract_raw_requirement_cell"
  /\ \E k \in 1..Len(notebook.cells[arg].source) : Blank(notebook.cells[arg].source[k])
  /\ \E k \in 1..Len(notebook.cells[arg].source) :
       /\ ~Blank(notebook.cells[arg].source[k])
       /\ Trimmed(notebook.cells[arg].source[k]) # notebook.cells[arg].source[k]
  /\ \E k \in 1..Len(result.value) : StartsWith(result.value[k], "#")

(* C11: extract_source_code includes a cell if and only if it is a code    *)
(* cell with a non-empty source and either its tags contain "model" or its *)
(* first line is "#", any number of spaces, "!model", any number of spaces *)
(* and at most one newline; the included cells appear in document order,   *)
(* each once and each after a "# !notebook-cell" line.                     *)
C11_IncludedCells ==
  op = "extract_source_code" => HoldsCells(result.value, IncludedCells)

\* The same with the marker read as "# !model" exactly, followed by nothing
\* but whitespace (C11 as stated).
C11_ExactMarker ==
  op = "extract_source_code" => HoldsCells(result.value, ExactlyMarkedCells)

\* A tagged cell and a marked cell are included, in document order, and a
\* cell between or around them is not.
C11_Witness ==
  /\ op = "extract_source_code"
  /\ Len(IncludedCells) = 2
  /\ TaggedModel(notebook.cells[IncludedCells[1]])
  /\ ~TaggedModel(notebook.cells[IncludedCells[2]])
  /\ HoldsCells(result.value, IncludedCells)

(* C12: the text of extract_source_code is, for each included cell, the    *)
(* marker line and the cell's lines verbatim, followed by the three        *)
(* newlines that end the last line and leave two blank lines before the    *)
(* next marker, or by a single newline after the last included cell; with  *)
(* no included cell it is one newline and nothing is raised.               *)
C12_SourceCodeText ==
  op = "extract_source_code" =>
    /\ result = Return(CellsText(IncludedCells, 1) \o (IF IncludedCells = <<>> THEN "\n" ELSE ""))
    /\ IncludedCells = <<>> => result = Return("\n")

\* Two cells are included, the first with its own marker line.
C12_Witness ==
  /\ op = "extract_source_code"
  /\ Len(IncludedCells) = 2
  /\ IsModelMarker(notebook.cells[IncludedCells[1]].source[1])
  /\ result.ok

(* C13: get_model_file_content returns no text for a source in which the   *)
(* parameter list of a defined train_model or predict holds the same       *)
(* trimmed name twice: it raises InvalidCodeFormat.                        *)
C13_DistinctParameters ==
  op = "get_model_file_content" /\ DuplicateIn(source_code) =>
    Raised(result, "InvalidCodeFormat")

\* A train_model that is otherwise valid and asked for repeats a name: the
\* duplicate check is what raises.
C13_Witness ==
  /\ op = "get_model_file_content"
  /\ arg = "TRAIN"
  /\ Len(Signatures(source_code, "train_model")) = 1
  /\ ~Defined(source_code, "predict")
  /\ DuplicateIn(source_code)
  /\ result = Raise("InvalidCodeFormat", "Duplicate parameters in train_model()")

(* C17: _sanitize_package_name lowers the name, replaces every underscore  *)
(* by a hyphen, drops the leading non-letters and then every character     *)
(* outside [0-9a-z-]; the result is empty or starts with a lower-case      *)
(* letter and holds characters of [0-9a-z-] only, and sanitizing a         *)
(* sanitized name returns it unchanged.                                    *)
C17_SanitizedName ==
  /\ op = "_sanitize_package_name" =>
       /\ result = Return(Sanitized(Hyphenated(arg), 1, FALSE))
       /\ IsPackageName(result.value)
  /\ op = "_sanitize_package_name again" =>
       /\ IsPackageName(arg)
       /\ result = Return(arg)

\* A name with a leading capital, an underscore and a character to remove.
C17_Witness ==
  /\ op = "_sanitize_package_name"
  /\ arg = "H_#"
  /\ result = Return("h-")

(* C18: get_setup_file_content returns a fixed manifest: its               *)
(* REQUIRED_PACKAGES line lists every requirement once, in input order,    *)
(* each in double quotes, separated by ", " inside square brackets; the    *)
(* setup() fields are name, version "1.0", install_requires, packages and  *)
(* description in this order; the text ends with a newline; for the        *)
(* reference input it is the reference manifest.                           *)
C18_SetupFileContent ==
  op = "get_setup_file_content" =>
    LET lines == Split(result.value, "\n")
    IN  /\ result.ok
        /\ Len(lines) = 11
        /\ lines[1] = "from setuptools import find_packages, setup"
        /\ lines[2] = ""
        /\ lines[3] = "REQUIRED_PACKAGES = [" \o QuotedFrom(arg.requirements, 1) \o "]"
        /\ lines[4] = "setup("
        /\ lines[5] = "    name=\"" \o arg.name \o "\","
        /\ lines[6] = "    version=\"1.0\","
        /\ lines[7] = "    install_requires=REQUIRED_PACKAGES,"
        /\ lines[8] = "    packages=find_packages(),"
        /\ lines[9] = "    description=\"" \o arg.description \o "\","
        /\ lines[10] = ")"
        /\ lines[11] = ""
        /\ arg = ReferenceInput => result.value = ReferenceManifest

\* The manifest of the reference input was written.
C18_Witness ==
  /\ op = "get_setup_file_content"
  /\ arg = ReferenceInput
  /\ result = Return(ReferenceManifest)

(* C14: when _create_package fails with InvalidRequirements or             *)
(* InvalidCodeFormat the error is the one the extraction or the synthesis  *)
(* raised, and the build directory is not left with a package of this      *)
(* attempt of which only some files are written, such as a written         *)
(* setup.py next to a missing or empty model.py.                           *)
C14_NoPartialPackage ==
  [][ /\ op = "input"
      /\ op' = "_create_package"
      /\ result'.error \in {"InvalidRequirements", "InvalidCodeFormat"}
      => /\ \/ result' = extract_requirements(notebook)
            \/ result' = get_model_file_content(extract_source_code(notebook),
                                                arg'.available_operations)
         /\ \/ WrittenBetween(build, build',
                 {PackageFiles(arg'.name)[f] : f \in DOMAIN PackageFiles(arg'.name)}) = {}
            \/ HoldsPackage(build', arg'.name) ]_vars

C19_NotebookVersion ==
  /\ [](op = "_read_notebook" =>
          IF notebook.nbformat = 4 THEN result = Return(notebook)
          ELSE Raised(result, "UnsupportedNotebookVersion"))
  /\ [][ /\ op = "input"
         /\ op' \in {"_create_package", "deploy_model_version",
                       "train_and_deploy_model_version"}
         /\ notebook.nbformat # 4
         => /\ Raised(result', "UnsupportedNotebookVersion")
            /\ build' = build
            /\ calls' = calls ]_vars

\* A notebook of format 3 without valid requirements is packaged over an
\* earlier build: the version is what is reported, and the build is as before.
C19_Witness ==
  /\ op = "_create_package"
  /\ notebook.nbformat = 3
  /\ ~extract_requirements(notebook).ok
  /\ build = PreviousBuild
  /\ Raised(result, "UnsupportedNotebookVersion")

(* C15: in deploy_model_version and train_and_deploy_model_version the     *)
(* package creation, the upload, the polling and the deployment follow in  *)
(* this order, the upload and the deployment at most once; the deployment  *)
(* is called only after a query that answered "uploaded" and with the id   *)
(* the upload returned; after a failed package creation or a timeout no    *)
(* further step is taken; the value returned is the id of the model        *)
(* version created.                                                        *)
C15_DeploymentOrder ==
  /\ [](Deploying =>
          /\ Cardinality(Uploads) <= 1
          /\ Cardinality(Deployments) <= 1
          /\ calls # <<>> =>
               /\ Uploads = {1}
               /\ HoldsPackage(build, _sanitize_package_name(arg.name))
               /\ calls[1].package_directory =
                    "build/" \o Replace(_sanitize_package_name(arg.name), "-", "_")
          /\ \A d \in Deployments :
               /\ d = Len(calls)
               /\ calls[d].call = "models." \o op
               /\ d - 1 \in Queries
               /\ calls[d - 1].is_uploaded
               /\ calls[d].source_package_id = calls[1].id
          /\ \A q \in Queries : calls[q].id = calls[1].id
          /\ pc = "raised" => Deployments = {}
          /\ pc = "raised" /\ result.error # "TimeoutError" => calls = <<>>
          /\ pc = "returned" <=> Deployments # {}
          /\ pc = "returned" => result = Return(calls[Len(calls)].id))
  /\ [][pc \notin {"raised", "returned"}]_vars

\* A deployment returned the id of its model version after a query that
\* answered "not uploaded" and one that answered "uploaded".
C15_Witness ==
  /\ op = "train_and_deploy_model_version"
  /\ pc = "returned"
  /\ FailedQueries # {}
  /\ calls[1].id = 12
  /\ result = Return(22)

(* C20: _wait_on_uploaded_source_package terminates; it queries the status *)
(* at most 10 times, sleeps before each query, returns at the first query  *)
(* that answers "uploaded" without a further query, and raises             *)
(* TimeoutError exactly when 10 queries answered "not uploaded".           *)
C20_WaitTerminates ==
  /\ [](Deploying =>
          /\ Cardinality(Queries) <= 10
          /\ \A q \in Queries :
               /\ q > 1
               /\ calls[q - 1] = [call |-> "sleep", seconds |-> "0.5"]
               /\ \A later \in Queries : later > q => ~calls[q].is_uploaded
          /\ Cardinality(CallsOf("sleep")) = Cardinality(Queries)
          /\ Queries # FailedQueries => PastWaiting /\ ~Raised(result, "TimeoutError")
          /\ Raised(result, "TimeoutError") <=> Cardinality(FailedQueries) = 10
          /\ Raised(result, "TimeoutError") => pc = "raised")
  /\ (~PastWaiting ~> PastWaiting)

\* All 10 queries answered "not uploaded" and the timeout was raised.
C20_Witness ==
  /\ Deploying
  /\ Cardinality(FailedQueries) = 10
  /\ Queries = FailedQueries
  /\ result = Raise("TimeoutError", "Uploading of source package timed out")

(* C21: get_model_file_content looks for its failures in one order and     *)
(* raises InvalidCodeFormat for the first that holds: train_model defined  *)
(* twice or with the wrong parameters; load_model the same; predict the    *)
(* same, or load_model without predict; train_model missing, predict       *)
(* missing, train_model not asked for, predict not asked for; the same     *)
(* parameter name twice in train_model, then in predict.  It returns a     *)
(* content exactly when none holds.  So a train_model with the wrong       *)
(* parameters is reported as such under PREDICT, and a repeated parameter  *)
(* name is not reported while the functions defined differ from those      *)
(* asked for.                                                              *)
C21_ErrorOrder ==
  op = "get_model_file_content" =>
    LET failures == Failures(source_code, arg)
        holding  == Holding(failures)
    IN  /\ IF holding = {}
           THEN result.ok
           ELSE result = Raise("InvalidCodeFormat", failures[Min(holding)].msg)
        /\ arg = "PREDICT" /\ Named(failures, "train_model shape") \in holding
             => result.msg = failures[Named(failures, "train_model shape")].msg
        /\ holding \cap Stage(failures, 4) # {}
             => \A k \in Stage(failures, 5) : result.msg # failures[k].msg

\* Under PREDICT a text has a train_model with the wrong parameters, which
\* is also not asked for, and a predict that repeats a name: the wrong
\* parameters of train_model are what is reported.
C21_Witness ==
  /\ op = "get_model_file_content"
  /\ arg = "PREDICT"
  /\ \A what \in {"train_model shape", "train_model not asked for", "predict repeats a name"} :
       Named(Failures(source_code, arg), what) \in Holding(Failures(source_code, arg))
  /\ result = Raise("InvalidCodeFormat",
                    "train_model() must have open_artifact as first parameter")

(* C22: a synthesized wrapper refers only to what exists.  It calls        *)
(* train_model, load_model or predict only when the source defines that    *)
(* function; it reads self._model only when the constructor that sets it   *)
(* is there; load hands an argument to Model(...) exactly when that        *)
(* constructor is there.  Under TRAIN the wrapper's only method is train   *)
(* (no constructor, load or predict); under PREDICT it has no train.       *)
C22_WrapperRefersToWhatExists ==
  Synthesized =>
    LET lines       == WrapperLines(result.value, source_code)
        constructor == LineOf(lines, "    def __init__(self, model):", FALSE) > 0
    IN  /\ \A name \in FunctionNames :
             CallsFunction(lines, name) => Defined(source_code, name)
        /\ ReadsModel(lines) => constructor
        /\ \A k \in BuildsWrapper(lines) :
             ~Contains(lines[k], "return Model()") <=> constructor
        /\ arg = "TRAIN" =>
             /\ MethodLines(lines) # {}
             /\ \A k \in MethodLines(lines) : StartsWith(lines[k], "    def train(")
        /\ arg = "PREDICT" =>
             \A k \in MethodLines(lines) : ~StartsWith(lines[k], "    def train(")

\* A predict() without load_model() was synthesized under PREDICT: load
\* builds the wrapper without an argument and predict calls the user's
\* predict without self._model.
C22_Witness ==
  /\ Synthesized
  /\ arg = "PREDICT"
  /\ ~Defined(source_code, "load_model")
  /\ BuildsWrapper(WrapperLines(result.value, source_code)) # {}
  /\ CallsFunction(WrapperLines(result.value, source_code), "predict")
  /\ ~ReadsModel(WrapperLines(result.value, source_code))

====
